---- MODULE Spec2Model ----
\* A model of book_extractor_db.py (class BookExtractor): the text cleaner,
\* the chapter segmenter, the SQLite book store, the extraction pipeline and
\* the script that runs them.
\*
\* Strings of the program are modelled as sequences of one-character strings,
\* so that the regular expressions of clean_text and extract_chapters can be
\* modelled by what they do to each character.  A parsed HTML document is the
\* sequence of its elements in document order (the order find_next follows),
\* each element being a tag name with the text it holds.
EXTENDS Integers, Sequences, FiniteSets, TLC

VARIABLES
    extractor,  \* the name extractor of __main__: "unbound" or "bound"
    conn,       \* self.conn: "none" before sqlite3.connect, then "open", "closed" after close()
    libros,     \* committed rows of table libros
    capitulos,  \* committed rows of table capitulos
    clock,      \* the value datetime.now() returns
    last,       \* the call made by the last step: arguments and outcome
    failed,     \* history: the urls of the saves that were rolled back so far
    pc,         \* position of a run: of one method alone, or of the script
    html,       \* extract_chapters: the argument
    chapters,   \* extract_chapters: the returned value
    text,       \* clean_text: the argument
    cleaned     \* clean_text: the returned value

vars == <<extractor, conn, libros, capitulos, clock, last, failed, pc, html, chapters, text, cleaned>>

None == "None"

\* None where the program expects a string, and where it expects a document.
NoneText == <<None>>
NoneHtml == <<[name |-> None, text |-> NoneText]>>

----------------------------------------------------------------------------
\* Bounds of the model.

MaxText == 5    \* longest argument of clean_text that is enumerated
MaxDoc == 5     \* most elements in a document given to extract_chapters
MaxBatch == 2   \* most chapters in a batch passed directly to save_to_database
MaxClock == 1   \* last instant of the clock

----------------------------------------------------------------------------
\* Characters.

Whitespace == {" ", "\t", "\n", "\r", "\f"}

Digits == {"0", "1", "2", "3", "4", "5", "6", "7", "8", "9"}

UpperCase == <<"A", "B", "C", "D", "E", "F", "G", "H", "I", "J", "K", "L", "M",
               "N", "O", "P", "Q", "R", "S", "T", "U", "V", "W", "X", "Y", "Z",
               "Á", "É", "Í", "Ó", "Ú", "Ñ">>

LowerCase == <<"a", "b", "c", "d", "e", "f", "g", "h", "i", "j", "k", "l", "m",
               "n", "o", "p", "q", "r", "s", "t", "u", "v", "w", "x", "y", "z",
               "á", "é", "í", "ó", "ú", "ñ">>

Range(s) == {s[i] : i \in 1..Len(s)}

\* \w of the regular expressions: letters, digits and the underscore.
WordChars == Range(UpperCase) \cup Range(LowerCase) \cup Digits \cup {"_"}

\* The punctuation listed in the character class of clean_text.
Punctuation == {".", ",", "!", "?", "¡", "¿", ":", ";", "(", ")", "-", "\"", "'"}

\* re.I: letters are compared in one case.
LowerOf ==
    [c \in Range(UpperCase) |->
        LowerCase[CHOOSE i \in 1..Len(UpperCase) : UpperCase[i] = c]]

ToLower(c) == IF c \in DOMAIN LowerOf THEN LowerOf[c] ELSE c

Rep(c, n) == [i \in 1..n |-> c]

----------------------------------------------------------------------------
\* clean_text

\* re.sub(r'\s+', ' ', text): every maximal run of whitespace becomes one space.
RECURSIVE CollapseWhitespace(_)
CollapseWhitespace(s) ==
    IF s = <<>> THEN <<>>
    ELSE IF Head(s) \in Whitespace
         THEN IF Len(s) > 1 /\ s[2] \in Whitespace
              THEN CollapseWhitespace(Tail(s))
              ELSE <<" ">> \o CollapseWhitespace(Tail(s))
         ELSE <<Head(s)>> \o CollapseWhitespace(Tail(s))

\* The characters the second substitution of clean_text leaves in place.
KeptChars == WordChars \cup Whitespace \cup Punctuation

Kept(c) == c \in KeptChars

\* re.sub(r'[^\w\s.,!?...]+', '', text): every other character is deleted.
RemoveSpecial(s) == SelectSeq(s, Kept)

RECURSIVE LStrip(_)
LStrip(s) ==
    IF s /= <<>> /\ Head(s) \in Whitespace THEN LStrip(Tail(s)) ELSE s

RECURSIVE RStrip(_)
RStrip(s) ==
    IF s /= <<>> /\ s[Len(s)] \in Whitespace
    THEN RStrip(SubSeq(s, 1, Len(s) - 1))
    ELSE s

Strip(s) == RStrip(LStrip(s))

clean_text(t) ==
    IF t = NoneText \/ t = <<>> THEN <<>>
    ELSE Strip(RemoveSpecial(CollapseWhitespace(t)))

----------------------------------------------------------------------------
\* The specification of clean_text alone: an argument is drawn, clean_text is
\* applied to it, and then applied again to its own result.

CleanAlphabet == {"a", " ", "\n", "#", "."}

RECURSIVE SeqsUpTo(_, _)
SeqsUpTo(S, n) ==
    IF n = 0 THEN {<<>>}
    ELSE LET shorter == SeqsUpTo(S, n - 1)
         IN  shorter \cup {Append(s, x) : s \in {t \in shorter : Len(t) = n - 1}, x \in S}

CleanInputs == SeqsUpTo(CleanAlphabet, MaxText) \cup {NoneText}

\* No call has been made by the last step.
NoCall ==
    [op |-> "none", url |-> None, title |-> None, fetched |-> "none",
     numeros |-> <<>>, trace |-> <<>>, ok |-> FALSE, raised |-> FALSE,
     rows |-> <<>>]

InitClean ==
    /\ text \in CleanInputs
    /\ cleaned = NoneText
    /\ pc = "clean"
    /\ extractor = "bound"
    /\ conn = "open" /\ libros = {} /\ capitulos = {} /\ clock = 0
    /\ last = NoCall /\ html = NoneHtml /\ chapters = <<>>
    /\ failed = {}

CallCleanText ==
    /\ pc = "clean"
    /\ cleaned' = clean_text(text)
    /\ pc' = "cleaned"
    /\ UNCHANGED <<failed, extractor, conn, libros, capitulos, clock, last, html, chapters, text>>

CallCleanTextAgain ==
    /\ pc = "cleaned"
    /\ text' = cleaned
    /\ cleaned' = clean_text(cleaned)
    /\ pc' = "recleaned"
    /\ UNCHANGED <<failed, extractor, conn, libros, capitulos, clock, last, html, chapters>>

NextClean == CallCleanText \/ CallCleanTextAgain

SpecClean == InitClean /\ [][NextClean]_vars

----------------------------------------------------------------------------
\* extract_chapters

MinLength == 50

capitulo == <<"c", "a", "p", "i", "t", "u", "l", "o">>
capitulo_acento == <<"c", "a", "p", "í", "t", "u", "l", "o">>
parte == <<"p", "a", "r", "t", "e">>
libro == <<"l", "i", "b", "r", "o">>

\* The word w stands in s at position i, letters compared in one case.
WordAt(s, i, w) ==
    /\ i + Len(w) - 1 <= Len(s)
    /\ \A k \in 1..Len(w) : ToLower(s[i + k - 1]) = w[k]

Contains(s, w) == \E i \in 1..Len(s) : WordAt(s, i, w)

\* re.compile(r'cap[ií]tulo|[IVX]+\.|\d+\.|parte|libro', re.I).search(s)
chapter_patterns(s) ==
    \/ Contains(s, capitulo)
    \/ Contains(s, capitulo_acento)
    \/ \E i \in 1..(Len(s) - 1) : ToLower(s[i]) \in {"i", "v", "x"} /\ s[i + 1] = "."
    \/ \E i \in 1..(Len(s) - 1) : s[i] \in Digits /\ s[i + 1] = "."
    \/ Contains(s, parte)
    \/ Contains(s, libro)

MarkerTags == {"h1", "h2", "h3", "div", "p"}

\* soup.find_all(['h1', 'h2', 'h3', 'div', 'p'], string=re.compile(...)):
\* the positions of the matching elements, in document order.
RECURSIVE MarkersFrom(_, _)
MarkersFrom(doc, i) ==
    IF i > Len(doc) THEN <<>>
    ELSE IF doc[i].name \in MarkerTags /\ chapter_patterns(doc[i].text)
         THEN <<i>> \o MarkersFrom(doc, i + 1)
         ELSE MarkersFrom(doc, i + 1)

chapter_markers(doc) == MarkersFrom(doc, 1)

\* '\n\n'.join(parts)
RECURSIVE Join(_)
Join(parts) ==
    IF parts = <<>> THEN <<>>
    ELSE IF Len(parts) = 1 THEN parts[1]
         ELSE parts[1] \o <<"\n", "\n">> \o Join(Tail(parts))

\* The condition of the while loop, as Python parses it:
\*   (current and current != chapter_markers[i+1]) if i+1 < len(chapter_markers) else None
\* cur is the position of current (past the end: find_next returned None),
\* i the 0-based index of the marker.  Tags are compared by value.
LoopCondition(doc, markers, i, cur) ==
    IF i + 1 < Len(markers)
    THEN cur <= Len(doc) /\ doc[cur] /= doc[markers[i + 2]]
    ELSE FALSE

\* The while loop: the paragraphs collected from position cur on.
RECURSIVE Collect(_, _, _, _)
Collect(doc, markers, i, cur) ==
    IF LoopCondition(doc, markers, i, cur)
    THEN LET t == clean_text(doc[cur].text)
             kept == IF doc[cur].name = "p" /\ t /= <<>> /\ Len(t) > MinLength
                     THEN <<t>> ELSE <<>>
         IN  kept \o Collect(doc, markers, i, cur + 1)
    ELSE <<>>

\* ChaptersFrom without "if chapter_content": a chapter for every marker.
RECURSIVE ChaptersFrom_KeepEmpty(_, _, _)
ChaptersFrom_KeepEmpty(doc, markers, i) ==
    IF i >= Len(markers) THEN <<>>
    ELSE <<[numero |-> i + 1,
            titulo |-> clean_text(doc[markers[i + 1]].text),
            contenido |-> Join(Collect(doc, markers, i, markers[i + 1] + 1))]>>
         \o ChaptersFrom_KeepEmpty(doc, markers, i + 1)

\* ChaptersFrom taking the number of a chapter from the numeral that opens the
\* text of its marker, when there is one, instead of the marker's position.
RECURSIVE ChaptersFrom_NumeralOfTitle(_, _, _)
ChaptersFrom_NumeralOfTitle(doc, markers, i) ==
    IF i >= Len(markers) THEN <<>>
    ELSE LET chapter_title == clean_text(doc[markers[i + 1]].text)
             chapter_content == Collect(doc, markers, i, markers[i + 1] + 1)
             numero == IF chapter_title /= <<>> /\ chapter_title[1] = "1"
                       THEN 1 ELSE i + 1
             emitted == IF chapter_content /= <<>>
                        THEN <<[numero |-> numero,
                                titulo |-> chapter_title,
                                contenido |-> Join(chapter_content)]>>
                        ELSE <<>>
         IN  emitted \o ChaptersFrom_NumeralOfTitle(doc, markers, i + 1)

\* ChaptersFrom giving every chapter the number 1, as the branch without
\* markers does.
RECURSIVE ChaptersFrom_AllNumberedOne(_, _, _)
ChaptersFrom_AllNumberedOne(doc, markers, i) ==
    IF i >= Len(markers) THEN <<>>
    ELSE LET chapter_title == clean_text(doc[markers[i + 1]].text)
             chapter_content == Collect(doc, markers, i, markers[i + 1] + 1)
             emitted == IF chapter_content /= <<>>
                        THEN <<[numero |-> 1,
                                titulo |-> chapter_title,
                                contenido |-> Join(chapter_content)]>>
                        ELSE <<>>
         IN  emitted \o ChaptersFrom_AllNumberedOne(doc, markers, i + 1)

\* The for loop over the markers, from the marker of 0-based index i on.
RECURSIVE ChaptersFrom(_, _, _)
ChaptersFrom(doc, markers, i) ==
    IF i >= Len(markers) THEN <<>>
    ELSE LET chapter_title == clean_text(doc[markers[i + 1]].text)
             chapter_content == Collect(doc, markers, i, markers[i + 1] + 1)
             emitted == IF chapter_content /= <<>>
                        THEN <<[numero |-> i + 1,
                                titulo |-> chapter_title,
                                contenido |-> Join(chapter_content)]>>
                        ELSE <<>>
         IN  emitted \o ChaptersFrom(doc, markers, i + 1)

TextoCompleto == <<"T", "e", "x", "t", "o", " ", "c", "o", "m", "p", "l", "e", "t", "o">>

IsParagraph(e) == e.name = "p"
NotBlank(e) == Strip(e.text) /= <<>>

\* FullText keeping only the paragraphs longer than MinLength, as the loop over
\* the markers does.
FullText_MinLength(doc) ==
    LET IsLong(e) == Len(clean_text(e.text)) > MinLength
        ps == SelectSeq(SelectSeq(doc, IsParagraph), IsLong)
        content == [k \in 1..Len(ps) |-> clean_text(ps[k].text)]
    IN  IF ps /= <<>>
        THEN <<[numero |-> 1, titulo |-> TextoCompleto, contenido |-> Join(content)]>>
        ELSE <<>>

\* The branch taken when no marker is found.
FullText(doc) ==
    LET ps == SelectSeq(SelectSeq(doc, IsParagraph), NotBlank)
        content == [k \in 1..Len(ps) |-> clean_text(ps[k].text)]
    IN  IF ps /= <<>>
        THEN <<[numero |-> 1, titulo |-> TextoCompleto, contenido |-> Join(content)]>>
        ELSE <<>>

\* extract_chapters falling back to the whole text also when markers were
\* found and none of them gave a chapter.
extract_chapters_FallbackWhenEmpty(html_content) ==
    IF html_content = NoneHtml \/ html_content = <<>> THEN <<>>
    ELSE LET markers == chapter_markers(html_content)
             found == ChaptersFrom(html_content, markers, 0)
         IN  IF found = <<>> THEN FullText(html_content) ELSE found

extract_chapters(html_content) ==
    IF html_content = NoneHtml \/ html_content = <<>> THEN <<>>
    ELSE LET markers == chapter_markers(html_content)
         IN  IF markers = <<>>
             THEN FullText(html_content)
             ELSE ChaptersFrom(html_content, markers, 0)

----------------------------------------------------------------------------
\* The specification of extract_chapters alone: a document is drawn and
\* segmented.

LongText == Rep("a", MinLength + 1)
EdgeText == Rep("a", MinLength) \o <<"#">>
BlankText == <<" ">>
TitleOne == <<"1", ".", " ", "#", "A">>
TitleTwo == <<"i", "i", ".">>

Elements ==
    { [name |-> "h2", text |-> TitleOne],
      [name |-> "p", text |-> TitleTwo],
      [name |-> "p", text |-> LongText],
      [name |-> "p", text |-> EdgeText],
      [name |-> "p", text |-> BlankText],
      [name |-> "div", text |-> LongText] }

Docs == SeqsUpTo(Elements, MaxDoc) \cup {NoneHtml}

InitSegment ==
    /\ html \in Docs
    /\ chapters = <<>>
    /\ pc = "segment_only"
    /\ extractor = "bound"
    /\ conn = "open" /\ libros = {} /\ capitulos = {} /\ clock = 0
    /\ last = NoCall
    /\ failed = {}
    /\ text = NoneText /\ cleaned = NoneText

CallExtractChapters ==
    /\ pc = "segment_only"
    /\ chapters' = extract_chapters(html)
    /\ pc' = "segmented"
    /\ UNCHANGED <<failed, extractor, conn, libros, capitulos, clock, last, html, text, cleaned>>

NextSegment == CallExtractChapters

SpecSegment == InitSegment /\ [][NextSegment]_vars

----------------------------------------------------------------------------
\* The store: tables libros and capitulos of setup_database.  A database value
\* is the pair of tables a transaction works on.

Database(ls, cs) == [libros |-> ls, capitulos |-> cs]

\* INTEGER PRIMARY KEY AUTOINCREMENT: one more than the largest id.  No row is
\* ever deleted, and a rollback restores sqlite_sequence with the tables.
NextId(rows) ==
    IF rows = {} THEN 1
    ELSE (CHOOSE m \in {r.id : r \in rows} : \A r \in rows : r.id <= m) + 1

\* SELECT id FROM libros WHERE url_origen = ?
SelectLibroByUrl(db, url) == {b \in db.libros : b.url_origen = url}

\* INSERT INTO libros ..., under titulo TEXT NOT NULL and UNIQUE(url_origen).
InsertLibro(db, title, author, now, url) ==
    IF title = None \/ \E b \in db.libros : b.url_origen = url
    THEN [ok |-> FALSE, db |-> db, lastrowid |-> 0]
    ELSE LET id == NextId(db.libros)
             row == [id |-> id, titulo |-> title, autor |-> author,
                     fecha_extraccion |-> now, url_origen |-> url]
         IN  [ok |-> TRUE, db |-> Database(db.libros \cup {row}, db.capitulos),
              lastrowid |-> id]

\* InsertCapitulo on a table declared without UNIQUE(libro_id, numero).
InsertCapitulo_NoUnique(db, libro_id, chapter) ==
    LET row == [id |-> NextId(db.capitulos), libro_id |-> libro_id,
                numero |-> chapter.numero, titulo |-> chapter.titulo,
                contenido |-> chapter.contenido]
    IN  [ok |-> TRUE, db |-> Database(db.libros, db.capitulos \cup {row})]

\* INSERT INTO capitulos ..., under UNIQUE(libro_id, numero).
InsertCapitulo(db, libro_id, chapter) ==
    IF \E c \in db.capitulos : c.libro_id = libro_id /\ c.numero = chapter.numero
    THEN [ok |-> FALSE, db |-> db]
    ELSE LET row == [id |-> NextId(db.capitulos), libro_id |-> libro_id,
                     numero |-> chapter.numero, titulo |-> chapter.titulo,
                     contenido |-> chapter.contenido]
         IN  [ok |-> TRUE, db |-> Database(db.libros, db.capitulos \cup {row})]

\* for chapter in chapters: INSERT ...; the first failing insert raises and
\* leaves the rows inserted so far in the open transaction.
RECURSIVE InsertChapters(_, _, _)
InsertChapters(db, libro_id, chs) ==
    IF chs = <<>> THEN [ok |-> TRUE, db |-> db]
    ELSE LET r == InsertCapitulo(db, libro_id, Head(chs))
         IN  IF r.ok THEN InsertChapters(r.db, libro_id, Tail(chs)) ELSE r

\* self.conn.commit(): the transaction's tables become the stored ones.
Commit(stored, working) == working

\* A rollback that undoes nothing, as on a connection in autocommit mode.
Rollback_KeepsRows(stored, working) == working

\* A rollback that undoes the chapter rows and keeps the book row.
Rollback_KeepsBook(stored, working) == Database(working.libros, stored.capitulos)

\* self.conn.rollback(): the tables are as they were when the transaction began.
Rollback(stored, working) == stored

\* save_to_database returning True for a book that exists already.
save_to_database_TrueOnExisting(c, stored, title, author, url, chs, now) ==
    IF c = "closed"
    THEN [ok |-> FALSE, raised |-> TRUE, db |-> stored]
    ELSE IF SelectLibroByUrl(stored, url) /= {}
    THEN [ok |-> TRUE, raised |-> FALSE, db |-> stored]
    ELSE LET b == InsertLibro(stored, title, author, now, url)
         IN  IF ~b.ok
             THEN [ok |-> FALSE, raised |-> FALSE, db |-> Rollback(stored, b.db)]
             ELSE LET r == InsertChapters(b.db, b.lastrowid, chs)
                  IN  IF r.ok
                      THEN [ok |-> TRUE, raised |-> FALSE, db |-> Commit(stored, r.db)]
                      ELSE [ok |-> FALSE, raised |-> FALSE, db |-> Rollback(stored, r.db)]

\* save_to_database: the value returned (ok), whether an exception left the
\* method (raised), and the stored tables afterwards (db).
\* On a closed connection the SELECT raises sqlite3.ProgrammingError, the
\* handler catches it, and its own self.conn.rollback() raises again.
save_to_database(c, stored, title, author, url, chs, now) ==
    IF c = "closed"
    THEN [ok |-> FALSE, raised |-> TRUE, db |-> stored]
    ELSE IF SelectLibroByUrl(stored, url) /= {}
    THEN [ok |-> FALSE, raised |-> FALSE, db |-> stored]
    ELSE LET b == InsertLibro(stored, title, author, now, url)
         IN  IF ~b.ok
             THEN [ok |-> FALSE, raised |-> FALSE, db |-> Rollback(stored, b.db)]
             ELSE LET r == InsertChapters(b.db, b.lastrowid, chs)
                  IN  IF r.ok
                      THEN [ok |-> TRUE, raised |-> FALSE, db |-> Commit(stored, r.db)]
                      ELSE [ok |-> FALSE, raised |-> FALSE, db |-> Rollback(stored, r.db)]

\* The sequences that list every element of the set S exactly once.
RECURSIVE Orderings(_)
Orderings(S) ==
    IF S = {} THEN {<<>>}
    ELSE UNION {{<<x>> \o t : t \in Orderings(S \ {x})} : x \in S}

\* list_books with ORDER BY id: rows come in insertion order.
list_books_ById(c, stored) ==
    IF c = "closed" THEN {<<>>}
    ELSE {[k \in 1..Len(o) |-> <<o[k].id, o[k].titulo, o[k].autor, o[k].fecha_extraccion>>] :
            o \in {q \in Orderings(stored.libros) :
                     \A i, j \in 1..Len(q) : i < j => q[i].id < q[j].id}}

\* SELECT id, titulo, autor, fecha_extraccion FROM libros
\* ORDER BY fecha_extraccion DESC: rows of equal date come in any order.
list_books(c, stored) ==
    IF c = "closed" THEN {<<>>}
    ELSE {[k \in 1..Len(o) |-> <<o[k].id, o[k].titulo, o[k].autor, o[k].fecha_extraccion>>] :
            o \in {q \in Orderings(stored.libros) :
                     \A i, j \in 1..Len(q) :
                        i < j => q[i].fecha_extraccion >= q[j].fecha_extraccion}}

\* get_book_chapters without ORDER BY numero: rows come in insertion order.
get_book_chapters_InsertionOrder(c, stored, libro_id) ==
    IF c = "closed" THEN {<<>>}
    ELSE {[k \in 1..Len(o) |-> <<o[k].numero, o[k].titulo, o[k].contenido>>] :
            o \in {q \in Orderings({r \in stored.capitulos : r.libro_id = libro_id}) :
                     \A i, j \in 1..Len(q) : i < j => q[i].id < q[j].id}}

\* SELECT numero, titulo, contenido FROM capitulos WHERE libro_id = ?
\* ORDER BY numero
get_book_chapters(c, stored, libro_id) ==
    IF c = "closed" THEN {<<>>}
    ELSE {[k \in 1..Len(o) |-> <<o[k].numero, o[k].titulo, o[k].contenido>>] :
            o \in {q \in Orderings({r \in stored.capitulos : r.libro_id = libro_id}) :
                     \A i, j \in 1..Len(q) : i < j => q[i].numero <= q[j].numero}}

----------------------------------------------------------------------------
\* extract_book: the value returned (ok), whether an exception left the method
\* (raised), the stored tables afterwards (db), the methods it invoked in order
\* (trace) and the chapter numbers extract_chapters gave it (numeros).
\* content is what get_book_content returns: the page, or None when the
\* request failed.

Numeros(chs) == [k \in 1..Len(chs) |-> chs[k].numero]

\* Pages the server may answer with: an empty page, a page of one paragraph
\* and no marker, and pages of one, two and three markers, one of them with a marker that has
\* no paragraph of its own.
Heading == [name |-> "h2", text |-> TitleOne]
Paragraph == [name |-> "p", text |-> LongText]

Pages ==
    { <<>>,
      <<Paragraph>>,
      <<Heading, Paragraph>>,
      <<Heading, Paragraph, Heading>>,
      <<Heading, Heading, Paragraph, Heading>>,
      <<Heading, Paragraph, Heading, Paragraph, Heading>> }

\* self.extract_chapters(html_content), tabulated over the pages so that each
\* page is segmented once.
Segmentation == [d \in Pages |-> extract_chapters(d)]

\* self.extract_chapters(html_content) for any document.
SegmentationOf(d) == IF d \in Pages THEN Segmentation[d] ELSE extract_chapters(d)

\* extract_book without "if chapters": it saves whatever the segmenter gave.
extract_book_NoChapterCheck(c, stored, url, title, author, content, now) ==
    IF content = NoneHtml \/ content = <<>>
    THEN [ok |-> FALSE, raised |-> FALSE, db |-> stored,
          trace |-> <<"get_book_content">>, numeros |-> <<>>]
    ELSE LET chs == Segmentation[content]
             r == save_to_database(c, stored, title, author, url, chs, now)
         IN  [ok |-> r.ok, raised |-> r.raised, db |-> r.db,
              trace |-> <<"get_book_content", "extract_chapters",
                          "save_to_database">>,
              numeros |-> Numeros(chs)]

\* extract_book, given the value chs that extract_chapters returns for content.
extract_book_given(c, stored, url, title, author, content, chs, now) ==
    IF content = NoneHtml \/ content = <<>>
    THEN [ok |-> FALSE, raised |-> FALSE, db |-> stored,
          trace |-> <<"get_book_content">>, numeros |-> <<>>]
    ELSE IF chs = <<>>
         THEN [ok |-> FALSE, raised |-> FALSE, db |-> stored,
               trace |-> <<"get_book_content", "extract_chapters">>,
               numeros |-> <<>>]
         ELSE LET r == save_to_database(c, stored, title, author, url, chs, now)
              IN  [ok |-> r.ok, raised |-> r.raised, db |-> r.db,
                   trace |-> <<"get_book_content", "extract_chapters",
                               "save_to_database">>,
                   numeros |-> Numeros(chs)]

extract_book(c, stored, url, title, author, content, now) ==
    extract_book_given(c, stored, url, title, author, content,
                       SegmentationOf(content), now)

----------------------------------------------------------------------------
\* The program: calls on one BookExtractor, one at a time.

Urls == {"u1", "u2"}
BookTitles == {"Don Quijote de la Mancha"}
Authors == {"Miguel de Cervantes"}

\* Chapter batches a caller passes to save_to_database directly.
BatchChapters ==
    {[numero |-> n, titulo |-> <<"t">>, contenido |-> <<"c">>] : n \in {1, 2}}

Batches == SeqsUpTo(BatchChapters, MaxBatch)

\* The record of a call: its name and arguments, what the server answered
\* (fetched: "none", "empty" or "page"), and what the call gave back.
Call(op, url, title, fetched, numeros, trace, ok, raised, rows) ==
    [op |-> op, url |-> url, title |-> title, fetched |-> fetched,
     numeros |-> numeros, trace |-> trace, ok |-> ok, raised |-> raised,
     rows |-> rows]

Fetched(content) ==
    IF content = NoneHtml THEN "none"
    ELSE IF content = <<>> THEN "empty" ELSE "page"

\* The urls whose save was rolled back, after a call for the url that ran
\* save_to_database (ran) and had it return ok: a save is rolled back when it
\* gets past the SELECT of line 123 on an open connection, finds no book of
\* the url, and ends in the handler of line 147.
FailedAfter(ran, ok, url) ==
    IF /\ ran
       /\ conn = "open"
       /\ SelectLibroByUrl(Database(libros, capitulos), url) = {}
       /\ ~ok
    THEN failed \cup {url}
    ELSE failed

Init ==
    /\ extractor = "bound"
    /\ conn = "open"
    /\ libros = {}
    /\ capitulos = {}
    /\ clock = 0
    /\ last = NoCall
    /\ failed = {}
    /\ pc = "idle"
    /\ html = NoneHtml
    /\ chapters = <<>>
    /\ text = NoneText
    /\ cleaned = NoneText

\* Time passes.
Tick ==
    /\ clock < MaxClock
    /\ clock' = clock + 1
    /\ last' = NoCall
    /\ UNCHANGED <<failed, extractor, conn, libros, capitulos, pc, html, chapters, text, cleaned>>

\* A direct call of save_to_database: what it does to the tables and what it
\* returns.
SaveCall(title, author, url, chs) ==
    /\ \E r \in {save_to_database(conn, Database(libros, capitulos),
                                   title, author, url, chs, clock)} :
           /\ libros' = r.db.libros
           /\ capitulos' = r.db.capitulos
           /\ last' = Call("save_to_database", url, title, "none", Numeros(chs),
                           <<"save_to_database">>, r.ok, r.raised, <<>>)
    /\ UNCHANGED <<extractor, conn, clock, pc, html, chapters, text, cleaned>>

\* A call of extract_book, the server answering with content.
ExtractCall(url, title, author, content) ==
    /\ \E r \in {extract_book(conn, Database(libros, capitulos),
                               url, title, author, content, clock)} :
           /\ libros' = r.db.libros
           /\ capitulos' = r.db.capitulos
           /\ last' = Call("extract_book", url, title, Fetched(content), r.numeros,
                           r.trace, r.ok, r.raised, <<>>)
    /\ UNCHANGED <<extractor, conn, clock, pc, html, chapters, text, cleaned>>

SaveToDatabase(title, author, url, chs) ==
    SaveCall(title, author, url, chs) /\ UNCHANGED failed

ExtractBook(url, title, author, content) ==
    ExtractCall(url, title, author, content) /\ UNCHANGED failed

ListBooks ==
    /\ \E rows \in list_books(conn, Database(libros, capitulos)) :
          last' = Call("list_books", None, None, "none", <<>>, <<"list_books">>,
                       TRUE, FALSE, rows)
    /\ UNCHANGED <<failed, extractor, conn, libros, capitulos, clock, pc, html, chapters, text, cleaned>>

GetBookChapters(libro_id) ==
    /\ \E rows \in get_book_chapters(conn, Database(libros, capitulos), libro_id) :
          last' = Call("get_book_chapters", None, None, "none", <<libro_id>>,
                       <<"get_book_chapters">>, TRUE, FALSE, rows)
    /\ UNCHANGED <<failed, extractor, conn, libros, capitulos, clock, pc, html, chapters, text, cleaned>>

\* close(): self.conn exists once the constructor has returned.
Close ==
    /\ conn' = "closed"
    /\ last' = Call("close", None, None, "none", <<>>, <<"close">>, TRUE, FALSE, <<>>)
    /\ UNCHANGED <<failed, extractor, libros, capitulos, clock, pc, html, chapters, text, cleaned>>

Next ==
    \/ Tick
    \/ \E title \in BookTitles, author \in Authors, url \in Urls, chs \in Batches :
          SaveToDatabase(title, author, url, chs)
    \/ \E url \in Urls, title \in BookTitles, author \in Authors,
          content \in Pages \cup {NoneHtml} :
          ExtractBook(url, title, author, content)
    \/ ListBooks
    \/ \E libro_id \in 1..Cardinality(Urls) : GetBookChapters(libro_id)
    \/ Close

Spec == Init /\ [][Next]_vars

----------------------------------------------------------------------------
\* The specification of saving again: calls of save_to_database and
\* extract_book on one open connection, with the history of the saves that
\* were rolled back.

SaveRecorded(title, author, url, chs) ==
    /\ SaveCall(title, author, url, chs)
    /\ failed' = FailedAfter(TRUE, last'.ok, url)

ExtractRecorded(url, title, author, content) ==
    /\ ExtractCall(url, title, author, content)
    /\ failed' = FailedAfter(Len(last'.trace) = 3, last'.ok, url)

NextRetry ==
    \/ \E title \in BookTitles, author \in Authors, url \in Urls, chs \in Batches :
          SaveRecorded(title, author, url, chs)
    \/ \E url \in Urls, title \in BookTitles, author \in Authors,
          content \in Pages \cup {NoneHtml} :
          ExtractRecorded(url, title, author, content)

SpecRetry == Init /\ [][NextRetry]_vars

----------------------------------------------------------------------------
\* The script under "if __name__ == '__main__'": one run of the program, from
\* the construction of the extractor to the finally clause.  pc is the
\* position of the run; libros and capitulos are the tables of the database
\* file, which earlier runs may have filled.

MainUrl == "u1"

\* The database file as an earlier run left it: without rows, or with one book.
PriorStores ==
    {Database({}, {})} \cup
    {extract_book("open", Database({}, {}), u, t, a, d, 0).db :
        u \in Urls, t \in BookTitles, a \in Authors, d \in Pages}

InitMain ==
    /\ pc = "makedirs"
    /\ extractor = "unbound"
    /\ conn = "none"
    /\ \E db \in PriorStores : libros = db.libros /\ capitulos = db.capitulos
    /\ clock \in 0..MaxClock
    /\ last = NoCall
    /\ failed = {}
    /\ html = NoneHtml
    /\ chapters = <<>>
    /\ text = NoneText
    /\ cleaned = NoneText

\* __init__, line 23: os.makedirs succeeds, or raises OSError, which leaves
\* the constructor.
MakeDirs ==
    /\ pc = "makedirs"
    /\ pc' \in {"connect", "except"}
    /\ UNCHANGED <<failed, extractor, conn, libros, capitulos, clock, last, html, chapters, text, cleaned>>

\* setup_database, line 30: sqlite3.connect gives a connection, or raises
\* sqlite3.Error, which line 61 raises again.
Connect ==
    /\ pc = "connect"
    /\ \/ conn' = "open" /\ pc' = "schema"
       \/ conn' = conn /\ pc' = "except"
    /\ UNCHANGED <<failed, extractor, libros, capitulos, clock, last, html, chapters, text, cleaned>>

\* setup_database, lines 31-57, and the assignment of line 215: the tables are
\* created and extractor is bound, or a statement raises sqlite3.Error, which
\* line 61 raises again with self.conn open and extractor never assigned.
CreateSchema ==
    /\ pc = "schema"
    /\ \/ extractor' = "bound" /\ pc' = "extract"
       \/ extractor' = extractor /\ pc' = "except"
    /\ UNCHANGED <<failed, conn, libros, capitulos, clock, last, html, chapters, text, cleaned>>

\* Lines 221-227: extract_book returns; the run goes on to the listing when
\* it returned True, to the finally clause otherwise, and to the handler of
\* line 239 when an exception left the call.
MainExtractBook ==
    /\ pc = "extract"
    /\ \E title \in BookTitles, author \in Authors, content \in Pages \cup {NoneHtml} :
          LET r == extract_book(conn, Database(libros, capitulos),
                                MainUrl, title, author, content, clock)
          IN  /\ libros' = r.db.libros
              /\ capitulos' = r.db.capitulos
              /\ last' = Call("extract_book", MainUrl, title, Fetched(content),
                              r.numeros, r.trace, r.ok, r.raised, <<>>)
              /\ pc' = IF r.raised THEN "except"
                       ELSE IF r.ok THEN "list" ELSE "finally"
              /\ failed' = FailedAfter(Len(r.trace) = 3, r.ok, MainUrl)
    /\ UNCHANGED <<extractor, conn, clock, html, chapters, text, cleaned>>

\* Lines 221-225: an exception that extract_book does not catch leaves it
\* before anything is saved.
MainExtractRaises ==
    /\ pc = "extract"
    /\ pc' = "except"
    /\ UNCHANGED <<failed, extractor, conn, libros, capitulos, clock, last, html, chapters, text, cleaned>>

\* Lines 228-237: the books are listed with their chapters.
MainListBooks ==
    /\ pc = "list"
    /\ \E rows \in list_books(conn, Database(libros, capitulos)) :
          last' = Call("list_books", None, None, "none", <<>>, <<"list_books">>,
                       TRUE, FALSE, rows)
    /\ pc' = "finally"
    /\ UNCHANGED <<failed, extractor, conn, libros, capitulos, clock, html, chapters, text, cleaned>>

\* Lines 239-240: the handler prints the error.
Except ==
    /\ pc = "except"
    /\ pc' = "finally"
    /\ UNCHANGED <<failed, extractor, conn, libros, capitulos, clock, last, html, chapters, text, cleaned>>

\* Lines 242-244: extractor.close().  With extractor bound, close() closes
\* self.conn; with extractor unbound the name lookup raises NameError and the
\* run ends there.
Finally ==
    /\ pc = "finally"
    /\ IF extractor = "bound"
       THEN conn' = "closed" /\ pc' = "done"
       ELSE conn' = conn /\ pc' = "crashed"
    /\ UNCHANGED <<failed, extractor, libros, capitulos, clock, last, html, chapters, text, cleaned>>

NextMain ==
    \/ MakeDirs
    \/ Connect
    \/ CreateSchema
    \/ MainExtractBook
    \/ MainExtractRaises
    \/ MainListBooks
    \/ Except
    \/ Finally

\* The interpreter runs the script to its end.
SpecMain == InitMain /\ [][NextMain]_vars /\ WF_vars(NextMain)

----------------------------------------------------------------------------
\* The specification of extract_book alone: the server answers with any
\* document, or with nothing, and extract_book is called once for MainUrl on
\* a store that is empty or holds the book of MainUrl already.  chapters is
\* what extract_chapters gives for the answer.

FetchedStores ==
    { Database({}, {}),
      save_to_database("open", Database({}, {}), "Don Quijote de la Mancha",
                       "Miguel de Cervantes", MainUrl,
                       <<[numero |-> 1, titulo |-> <<"t">>, contenido |-> <<"c">>]>>,
                       0).db }

InitExtract ==
    /\ pc = "fetched"
    /\ html \in Docs
    /\ \E db \in FetchedStores : libros = db.libros /\ capitulos = db.capitulos
    /\ extractor = "bound"
    /\ conn = "open"
    /\ clock = MaxClock
    /\ last = NoCall
    /\ failed = {}
    /\ chapters = <<>>
    /\ text = NoneText
    /\ cleaned = NoneText

CallExtractBook ==
    /\ pc = "fetched"
    /\ \E title \in BookTitles, author \in Authors, chs \in {SegmentationOf(html)} :
          LET r == extract_book_given(conn, Database(libros, capitulos),
                                      MainUrl, title, author, html, chs, clock)
          IN  /\ libros' = r.db.libros
              /\ capitulos' = r.db.capitulos
              /\ last' = Call("extract_book", MainUrl, title, Fetched(html),
                              r.numeros, r.trace, r.ok, r.raised, <<>>)
              /\ failed' = FailedAfter(Len(r.trace) = 3, r.ok, MainUrl)
              /\ chapters' = chs
    /\ pc' = "extracted"
    /\ UNCHANGED <<extractor, conn, clock, html, text, cleaned>>

NextExtract == CallExtractBook

SpecExtract == InitExtract /\ [][NextExtract]_vars

----------------------------------------------------------------------------
\* Properties of clean_text, checked under SpecClean.

NoWhitespaceRun(s) ==
    \A i \in 1..(Len(s) - 1) : ~(s[i] \in Whitespace /\ s[i + 1] \in Whitespace)

OnlyKeptChars(s) == \A i \in 1..Len(s) : s[i] \in KeptChars

\* C10: for every input x, clean(x) holds no run of two or more whitespace
\* characters and no character outside the allow-list, and cleaning the
\* result again gives the same string.
C10_CleanIsNormalForm ==
    /\ pc \in {"cleaned", "recleaned"} =>
          NoWhitespaceRun(cleaned) /\ OnlyKeptChars(cleaned)
    /\ pc = "recleaned" => cleaned = text

----------------------------------------------------------------------------
\* Properties of extract_chapters, checked under SpecSegment.  The sections
\* of a document are stated here from the positions of its markers, not from
\* the loop of extract_chapters.

\* The last position of the section of the k-th marker: the one before the
\* next marker, or the end of the document.  ms lists the marker positions.
SectionEnd(doc, ms, k) == IF k < Len(ms) THEN ms[k + 1] - 1 ELSE Len(doc)

IsLongParagraph(e) == e.name = "p" /\ Len(clean_text(e.text)) > MinLength

\* The elements that extract_chapters takes for markers, those that are
\* paragraphs longer than 50 characters once cleaned, and the cleaned text
\* of each element.
MarkerElements == {e \in Elements : chapter_markers(<<e>>) /= <<>>}
LongParagraphs == {e \in Elements : IsLongParagraph(e)}
CleanedText == [e \in Elements |-> clean_text(e.text)]

\* The positions of the markers of the document, in document order.
MarkerPositions(doc) ==
    SelectSeq([k \in 1..Len(doc) |-> k], LAMBDA k : doc[k] \in MarkerElements)

IsTabulatedLong(e) == e \in LongParagraphs

\* The cleaned texts of the paragraphs longer than MinLength in the section of
\* the k-th marker, in document order.
SectionContent(doc, ms, k) ==
    LET ps == SelectSeq(SubSeq(doc, ms[k] + 1, SectionEnd(doc, ms, k)),
                        IsTabulatedLong)
    IN  [j \in 1..Len(ps) |-> CleanedText[ps[j]]]

\* For each marker of the document, in order: the cleaned text of the marker
\* and the content of its section.
Sections(doc) ==
    LET ms == MarkerPositions(doc)
    IN  [k \in 1..Len(ms) |->
            [title |-> CleanedText[doc[ms[k]]],
             content |-> SectionContent(doc, ms, k)]]

Segmented == pc = "segmented" /\ html /= NoneHtml

\* C4: N >= 1 markers, each followed by a paragraph longer than 50 characters
\* before the next marker, give exactly N chapters numbered 1..N in document
\* order, each titled with the cleaned text of its marker.
C4_EveryMarkerYieldsChapter ==
    Segmented =>
       LET sec == Sections(html)
       IN  (Len(sec) >= 1 /\ \A k \in 1..Len(sec) : sec[k].content /= <<>>)
           => /\ Len(chapters) = Len(sec)
              /\ \A k \in 1..Len(sec) :
                    /\ chapters[k].numero = k
                    /\ chapters[k].titulo = sec[k].title

\* C5: for every marker, the last one included, the content of its chapter is
\* the cleaned text of exactly the long paragraphs of its section, which ends
\* before the next marker or at the end of the document.
C5_ContentIsSection ==
    Segmented =>
       LET sec == Sections(html)
       IN  /\ \A k \in 1..Len(sec) :
                 sec[k].content /= <<>> =>
                    \E j \in 1..Len(chapters) :
                       /\ chapters[j].numero = k
                       /\ chapters[j].contenido = Join(sec[k].content)
           /\ Len(sec) >= 1 =>
                 \A j \in 1..Len(chapters) :
                    /\ chapters[j].numero \in 1..Len(sec)
                    /\ chapters[j].contenido = Join(sec[chapters[j].numero].content)

\* C6: a marker whose section holds no paragraph longer than 50 characters
\* gives no chapter, and every chapter given carries the 1-based position of
\* its marker among all markers: its title and content are that marker's.
C6_DroppedNotRenumbered ==
    Segmented =>
       LET sec == Sections(html)
       IN  Len(sec) >= 1 =>
              /\ \A k \in 1..Len(sec) :
                    sec[k].content = <<>> =>
                       \A j \in 1..Len(chapters) : chapters[j].numero /= k
              /\ \A j \in 1..Len(chapters) :
                    /\ chapters[j].numero \in 1..Len(sec)
                    /\ chapters[j].titulo = sec[chapters[j].numero].title
                    /\ chapters[j].contenido = Join(sec[chapters[j].numero].content)
                    /\ chapters[j].contenido /= <<>>

\* A marker followed only by a paragraph of 50 characters was dropped, and the
\* chapter of the marker after it is numbered 2.
C6_Witness ==
    /\ Segmented
    /\ chapter_markers(html) = <<1, 3, 5>>
    /\ html[2] = [name |-> "p", text |-> EdgeText]
    /\ Len(chapters) = 1
    /\ chapters[1].numero = 2

----------------------------------------------------------------------------
\* Properties of the store and of extract_book, checked under Spec.

BookExists(ls, url) == \E b \in ls : b.url_origen = url

HasDuplicate(ns) == \E i, j \in 1..Len(ns) : i < j /\ ns[i] = ns[j]

\* The step ran save_to_database, called directly or by extract_book.
SaveRan(c) == c.trace /= <<>> /\ c.trace[Len(c.trace)] = "save_to_database"

\* C1: while the connection is open, a save for a source_url already persisted
\* returns False and leaves both tables as they were; a save of a batch of
\* distinct numbers for a source_url not yet persisted returns True; a save
\* that returns True was for a source_url not yet persisted and adds exactly
\* one book row with that url and one chapter row per chapter of the batch, so
\* the save after it with the same url returns False and changes no row count.
C1_DuplicateSaveIsNoop ==
    [][ SaveRan(last') =>
          /\ (conn = "open" /\ BookExists(libros, last'.url)) =>
                /\ ~last'.ok /\ ~last'.raised
                /\ libros' = libros
                /\ capitulos' = capitulos
          /\ (conn = "open" /\ ~BookExists(libros, last'.url)
                /\ ~HasDuplicate(last'.numeros)) => last'.ok
          /\ last'.ok =>
                /\ ~BookExists(libros, last'.url)
                /\ libros \subseteq libros'
                /\ capitulos \subseteq capitulos'
                /\ \E b \in libros' :
                      /\ b.url_origen = last'.url
                      /\ libros' \ libros = {b}
                      /\ \A c \in capitulos' \ capitulos : c.libro_id = b.id
                /\ Cardinality(capitulos' \ capitulos) = Len(last'.numeros)
    ]_vars

\* A save of a well-formed batch was refused because its url is persisted.
C1_Witness ==
    /\ last.op = "save_to_database"
    /\ conn = "open"
    /\ ~last.ok
    /\ last.numeros = <<2, 1>>
    /\ BookExists(libros, last.url)
    /\ \E b \in libros : b.url_origen = last.url /\
          Cardinality({c \in capitulos : c.libro_id = b.id}) = 1

\* C2: when a chapter insert of a save fails because two chapters of the batch
\* share a number, the save returns False and both tables are as before the
\* call: neither the book row nor any chapter row of the batch remains.
C2_FailedSaveRollsBack ==
    [][ ( /\ SaveRan(last')
          /\ conn = "open"
          /\ ~BookExists(libros, last'.url)
          /\ HasDuplicate(last'.numeros) )
        => /\ ~last'.ok /\ ~last'.raised
           /\ libros' = libros
           /\ capitulos' = capitulos
    ]_vars

\* A batch with a repeated number was refused for a url that is not persisted,
\* in a store that holds another book.
C2_Witness ==
    /\ last.op = "save_to_database"
    /\ conn = "open"
    /\ HasDuplicate(last.numeros)
    /\ ~last.ok
    /\ ~BookExists(libros, last.url)
    /\ libros /= {}
    /\ capitulos /= {}

\* C3: no two book rows have the same source_url, and no two chapter rows of
\* one book have the same number.
C3_UniqueKeys ==
    /\ \A b1, b2 \in libros : b1.url_origen = b2.url_origen => b1 = b2
    /\ \A c1, c2 \in capitulos :
          (c1.libro_id = c2.libro_id /\ c1.numero = c2.numero) => c1 = c2

\* Two books are stored, each with two chapters, and the last call was a save
\* that returned False.
C3_Witness ==
    /\ Cardinality(libros) = 2
    /\ \A b \in libros : Cardinality({c \in capitulos : c.libro_id = b.id}) = 2
    /\ last.op \in {"save_to_database", "extract_book"}
    /\ SaveRan(last)
    /\ ~last.ok

IsConsecutive(ns) == \A k \in 1..Len(ns) : ns[k] = k

IsIncreasing(ns) == \A i, j \in 1..Len(ns) : i < j => ns[i] < ns[j]

\* The chapter numbers stored for the book of the url, in the order in which
\* the rows were inserted.
StoredNumeros(ls, cs, url) ==
    LET rows == {c \in cs : \E b \in ls : b.url_origen = url /\ c.libro_id = b.id}
        nth(k) == CHOOSE c \in rows : Cardinality({d \in rows : d.id <= c.id}) = k
    IN  [k \in 1..Cardinality(rows) |-> nth(k).numero]

\* C7, as claimed: the chapter numbers extract_book gets from the segmenter,
\* and those of the book it persists, are exactly 1..k in discovery order.
C7_NumbersAreConsecutive ==
    last.op = "extract_book" =>
       /\ IsConsecutive(last.numeros)
       /\ last.ok => IsConsecutive(StoredNumeros(libros, capitulos, last.url))

\* C7, as amended: the chapter numbers extract_book gets from the segmenter
\* increase strictly in discovery order, and the book it persists holds
\* exactly those numbers, inserted in that order.
C7_NumbersIncrease ==
    last.op = "extract_book" =>
       /\ IsIncreasing(last.numeros)
       /\ last.ok => StoredNumeros(libros, capitulos, last.url) = last.numeros

\* extract_book persisted a book whose only chapter is numbered 2, after
\* another book of two chapters.
C7_Witness ==
    /\ last.op = "extract_book"
    /\ last.ok
    /\ last.numeros = <<2>>
    /\ StoredNumeros(libros, capitulos, last.url) = <<2>>
    /\ \E u \in Urls : StoredNumeros(libros, capitulos, u) = <<1, 2>>

Stages == <<"get_book_content", "extract_chapters", "save_to_database">>

\* C8: extract_book invokes fetch, segmentation and save in that order; when
\* the fetch gives nothing it invokes neither segmentation nor save, and when
\* segmentation gives no chapter it does not invoke save, and in both cases
\* it returns False and leaves the store as it was; it returns True exactly
\* when the call persisted a new book for its url.
C8_PipelineShortCircuits ==
    [][ last'.op = "extract_book" =>
          /\ Len(last'.trace) \in 1..3
          /\ last'.trace = SubSeq(Stages, 1, Len(last'.trace))
          /\ last'.fetched /= "page" => last'.trace = <<"get_book_content">>
          /\ last'.numeros = <<>> => ~SaveRan(last')
          /\ ~SaveRan(last') =>
                /\ ~last'.ok /\ ~last'.raised
                /\ libros' = libros
                /\ capitulos' = capitulos
          /\ last'.ok <=>
                \E b \in libros' \ libros : b.url_origen = last'.url
    ]_vars

\* The page was fetched, segmentation gave no chapter, and extract_book
\* returned False in a store that holds a book.
C8_Witness ==
    /\ last.op = "extract_book"
    /\ last.fetched = "page"
    /\ last.trace = <<"get_book_content", "extract_chapters">>
    /\ ~last.ok
    /\ libros /= {}

\* C9: no call lets an exception out.
C9_NothingPropagates == ~last.raised

----------------------------------------------------------------------------
\* The fallback of extract_chapters, checked under SpecSegment.

BlankLine == <<"\n", "\n">>

\* The cleaned texts of the paragraphs of the document from position k on
\* whose text is not blank, each followed by a blank line.
RECURSIVE ParagraphTexts(_, _)
ParagraphTexts(doc, k) ==
    IF k > Len(doc) THEN <<>>
    ELSE (IF doc[k].name = "p" /\ \E c \in Range(doc[k].text) : c \notin Whitespace
          THEN CleanedText[doc[k]] \o BlankLine
          ELSE <<>>) \o ParagraphTexts(doc, k + 1)

\* C11: a document with no marker and at least one paragraph of non-blank
\* text gives exactly one chapter, numbered 1 and titled "Texto completo",
\* whose content is the cleaned texts of the non-blank paragraphs in document
\* order joined by a blank line, whatever their length; a document with no
\* marker and no non-blank paragraph gives no chapter.
C11_FallbackIsWholeText ==
    (Segmented /\ MarkerPositions(html) = <<>>) =>
       LET body == ParagraphTexts(html, 1)
       IN  IF body /= <<>>
           THEN /\ Len(chapters) = 1
                /\ chapters[1].numero = 1
                /\ chapters[1].titulo = TextoCompleto
                /\ chapters[1].contenido \o BlankLine = body
           ELSE chapters = <<>>

\* A document without marker held a blank paragraph, a paragraph that cleans
\* to 50 characters and a longer one, and gave one chapter of both texts.
C11_Witness ==
    /\ Segmented
    /\ chapter_markers(html) = <<>>
    /\ html = << [name |-> "p", text |-> BlankText],
                 [name |-> "p", text |-> EdgeText],
                 [name |-> "div", text |-> LongText],
                 [name |-> "p", text |-> LongText] >>
    /\ Len(chapters) = 1
    /\ chapters[1].contenido = Rep("a", MinLength) \o BlankLine \o LongText

----------------------------------------------------------------------------
\* The queries, checked under Spec.  A row of list_books is
\* <<id, titulo, autor, fecha_extraccion>>, a row of get_book_chapters is
\* <<numero, titulo, contenido>>.

\* C12: on an open connection list_books returns every persisted book exactly
\* once, and of two books with extraction times T1 < T2 the one of T2 comes
\* first.
C12_ListIsNewestFirst ==
    (last.op = "list_books" /\ conn = "open") =>
       /\ Len(last.rows) = Cardinality(libros)
       /\ \A b \in libros :
             Cardinality({k \in 1..Len(last.rows) :
                            last.rows[k] = <<b.id, b.titulo, b.autor,
                                             b.fecha_extraccion>>}) = 1
       /\ \A i, j \in 1..Len(last.rows) :
             last.rows[i][4] < last.rows[j][4] => j < i

\* Two books were saved at different times and list_books gave the later one
\* first, which is the one inserted second.
C12_Witness ==
    /\ last.op = "list_books"
    /\ conn = "open"
    /\ Len(last.rows) = 2
    /\ last.rows[1][4] > last.rows[2][4]
    /\ last.rows[1][1] > last.rows[2][1]

\* C13: on an open connection get_book_chapters(libro_id) returns each chapter
\* row of that book exactly once and no row of another book, in strictly
\* ascending order of numero, whatever the order of the batch that was saved.
C13_ChaptersOfBookAscending ==
    (last.op = "get_book_chapters" /\ conn = "open") =>
       LET own == {c \in capitulos : c.libro_id = last.numeros[1]}
       IN  /\ Len(last.rows) = Cardinality(own)
           /\ \A c \in own :
                 Cardinality({k \in 1..Len(last.rows) :
                                last.rows[k] = <<c.numero, c.titulo, c.contenido>>}) = 1
           /\ \A i, j \in 1..Len(last.rows) :
                 i < j => last.rows[i][1] < last.rows[j][1]

\* The chapters of a book saved from the batch <<2, 1>> were returned as 1, 2,
\* while another book held a chapter of its own.
C13_Witness ==
    /\ last.op = "get_book_chapters"
    /\ conn = "open"
    /\ \E b \in libros :
          /\ b.id = last.numeros[1]
          /\ StoredNumeros(libros, capitulos, b.url_origen) = <<2, 1>>
    /\ \E c \in capitulos : c.libro_id /= last.numeros[1]
    /\ Len(last.rows) = 2
    /\ last.rows[1][1] = 1
    /\ last.rows[2][1] = 2

----------------------------------------------------------------------------
\* Properties of a run of the script, checked under SpecMain.

\* C14: a connection that was opened is closed before the run ends, whether
\* extract_book returned True or False, raised, or the schema setup failed
\* after the connection was opened.
C14_ReleasedAtExit == pc \in {"done", "crashed"} => conn /= "open"

----------------------------------------------------------------------------
\* Saving again after a failure, checked under SpecRetry.

\* C15: a save that fails on a persistence error for a url that is not
\* persisted leaves the url not persisted; and while the url of a rolled-back
\* save is still not persisted, a later save of that url with a batch of
\* distinct numbers returns True and persists one book row of the url with
\* one chapter row for each chapter of the batch.
C15_FailedSaveLeavesUrlFree ==
    [][ SaveRan(last') =>
          /\ (conn = "open" /\ ~BookExists(libros, last'.url) /\ ~last'.ok) =>
                ~BookExists(libros', last'.url)
          /\ ( /\ last'.url \in failed
               /\ conn = "open"
               /\ ~BookExists(libros, last'.url)
               /\ ~HasDuplicate(last'.numeros) ) =>
                /\ last'.ok
                /\ \E b \in libros' :
                      /\ b.url_origen = last'.url
                      /\ {c.numero : c \in {d \in capitulos' : d.libro_id = b.id}}
                            = Range(last'.numeros)
                      /\ StoredNumeros(libros', capitulos', last'.url) = last'.numeros
    ]_vars

\* A direct save of a url whose earlier save had been rolled back returned
\* True and stored its two chapters, next to the book of the other url.
C15_Witness ==
    /\ last.op = "save_to_database"
    /\ last.ok
    /\ last.url \in failed
    /\ last.numeros = <<2, 1>>
    /\ StoredNumeros(libros, capitulos, last.url) = <<2, 1>>
    /\ Cardinality(libros) = 2

----------------------------------------------------------------------------
\* Properties of extract_book over every document, checked under SpecExtract.

\* C16: the chapters extract_chapters gives have strictly increasing numbers,
\* so a save made by extract_book is never rolled back (it returns False only
\* for a url that is persisted already), and a book persisted by extract_book
\* has at least one chapter row.
C16_ExtractedBatchIsSavable ==
    [][ pc' = "extracted" =>
          /\ IsIncreasing(Numeros(chapters'))
          /\ ~HasDuplicate(Numeros(chapters'))
          /\ (SaveRan(last') /\ ~last'.ok) =>
                /\ BookExists(libros, last'.url)
                /\ last'.url \notin failed'
          /\ last'.ok =>
                \E b \in libros' \ libros :
                   /\ b.url_origen = last'.url
                   /\ \E c \in capitulos' : c.libro_id = b.id
                   /\ StoredNumeros(libros', capitulos', last'.url)
                         = Numeros(chapters')
    ]_vars

\* extract_book persisted a book of two chapters numbered 1 and 2, both from
\* markers that carry the same numeral.
C16_Witness ==
    /\ pc = "extracted"
    /\ last.ok
    /\ Len(chapters) = 2
    /\ chapters[1].titulo = chapters[2].titulo
    /\ StoredNumeros(libros, capitulos, last.url) = <<1, 2>>

\* The fallback chapter of a document: numbered 1 and titled "Texto completo".
IsFallbackChapter(ch) == ch.numero = 1 /\ ch.titulo = TextoCompleto

\* C17: for a document in which at least one marker is found, no chapter is
\* the fallback chapter, each chapter carrying the text of a marker as title;
\* and when no marker has a paragraph longer than 50 characters in its
\* section, extract_chapters gives the empty sequence, even if the document
\* holds non-blank paragraphs, and extract_book returns False without calling
\* save_to_database and leaves both tables as they were.
C17_FallbackOnlyWithoutMarkers ==
    [][ (pc' = "extracted" /\ last'.fetched = "page") =>
          \A ms \in {MarkerPositions(html)} :
             ms /= <<>> =>
                /\ \A j \in 1..Len(chapters') :
                      /\ ~IsFallbackChapter(chapters'[j])
                      /\ chapters'[j].numero \in 1..Len(ms)
                      /\ chapters'[j].titulo = CleanedText[html[ms[chapters'[j].numero]]]
                /\ (\A k \in (ms[1] + 1)..Len(html) : html[k] \notin LongParagraphs) =>
                      /\ chapters' = <<>>
                      /\ ~last'.ok /\ ~last'.raised
                      /\ ~SaveRan(last')
                      /\ libros' = libros
                      /\ capitulos' = capitulos
    ]_vars

\* A document with a long paragraph before its first marker and only a
\* paragraph of 50 characters after it gave no chapter, and extract_book
\* returned False on a store that holds a book.
C17_Witness ==
    /\ pc = "extracted"
    /\ chapter_markers(html) = <<2, 4>>
    /\ html[1] = [name |-> "p", text |-> LongText]
    /\ html[3] = [name |-> "p", text |-> EdgeText]
    /\ FullText(html) /= <<>>
    /\ chapters = <<>>
    /\ last.trace = <<"get_book_content", "extract_chapters">>
    /\ ~last.ok
    /\ libros /= {}

====
